---- MODULE Spec2Model ----
(***************************************************************************)
(* Model of the authentication flow of main.py: the users table, the       *)
(* register and login handlers, e-mail normalisation, password hashing and *)
(* token issuance.  Handlers are plain `def` endpoints, which FastAPI runs *)
(* on a thread pool, so two requests can interleave between the SELECT of  *)
(* register (line 127) and its COMMIT (line 133).                          *)
(***************************************************************************)
EXTENDS Integers, Sequences, FiniteSets, TLC

VARIABLES store, pc, req, last, registered, hpc, hp, hq, hh, hv

vars == <<store, pc, req, last, registered, hpc, hp, hq, hh, hv>>

authVars == <<store, pc, req, last, registered>>

hashVars == <<hpc, hp, hq, hh, hv>>

-----------------------------------------------------------------------------
(* Bounds of the model *)

\* number of distinct bcrypt salts pwd_context.hash may draw
NumSalts == 2

\* longest tail appended after the padding of a hasher input
MaxTail == 2

-----------------------------------------------------------------------------
(* Program constants *)

\* len(body.password) < 6
MinPasswordLen == 6

\* password[:72]
TruncateChars == 72

\* the bcrypt limit the comment of line 96 names: bcrypt reads 72 bytes
BcryptMaxBytes == 72

\* JWT_EXPIRES_MIN default
JWT_EXPIRES_MIN == 60

JWT_ALG == "HS256"

-----------------------------------------------------------------------------
(* Strings: a str is a sequence of characters *)

Rep(c, n) == [i \in 1..n |-> c]

Min(a, b) == IF a < b THEN a ELSE b

\* s[:n]
Take(s, n) == SubSeq(s, 1, Min(Len(s), n))

\* str.lower() on the characters of the model's alphabet
LowerChar(c) == IF c = "A" THEN "a" ELSE IF c = "B" THEN "b" ELSE c

lower(s) == [i \in DOMAIN s |-> LowerChar(s[i])]

IsSpace(c) == c = " "

RECURSIVE lstrip(_)
lstrip(s) == IF s # <<>> /\ IsSpace(s[1]) THEN lstrip(Tail(s)) ELSE s

RECURSIVE rstrip(_)
rstrip(s) ==
    IF s # <<>> /\ IsSpace(s[Len(s)]) THEN rstrip(SubSeq(s, 1, Len(s) - 1)) ELSE s

\* str.strip(): leading and trailing whitespace removed, inner whitespace kept
strip(s) == rstrip(lstrip(s))

\* body.email.lower().strip()
NormalizeEmail(e) == strip(lower(e))

\* UTF-8 encoding of one character: "e'" stands for a two-byte character
Utf8Char(c) == IF c = "e'" THEN <<"c3", "a9">> ELSE <<c>>

RECURSIVE Utf8(_)
Utf8(s) == IF s = <<>> THEN <<>> ELSE Utf8Char(s[1]) \o Utf8(Tail(s))

-----------------------------------------------------------------------------
(* Helpers *)

Salts == 1..NumSalts

\* pwd_context.hash(secret): bcrypt with a fresh salt; bcrypt keys on the
\* first 72 bytes of the encoded secret.
pwd_context_hash(secret, salt) ==
    [salt |-> salt, digest |-> Take(Utf8(secret), BcryptMaxBytes)]

\* The second definition of hash_password (lines 95-97) is the one bound to
\* the name at call time.
hash_password(password, salt) ==
    pwd_context_hash(Take(password, TruncateChars), salt)

\* verify_password is called on line 143 and defined nowhere in the module:
\* evaluating the name raises NameError.
verify_password(password, hash) == [raised |-> "NameError", value |-> FALSE]

NoToken == [sub |-> <<>>, ttl |-> 0, alg |-> "none"]

\* jwt.encode({"sub": email, "exp": utcnow() + JWT_EXPIRES_MIN}, ...)
create_token(email) == [sub |-> email, ttl |-> JWT_EXPIRES_MIN, alg |-> JWT_ALG]

-----------------------------------------------------------------------------
(* Credential store: the rows of table "users", in insertion order *)

NoHash == [salt |-> 0, digest |-> <<>>]

\* None, as the result of .first() on an empty result set
NoUser == [id |-> 0, email |-> <<>>, password_hash |-> NoHash]

\* truthiness of `existing` / `user`
Found(u) == u.id # 0

RowsByEmail(s, email) == {i \in DOMAIN s : s[i].email = email}

\* db.query(User).filter(User.email == email).first()
query_first(s, email) ==
    LET rows == RowsByEmail(s, email)
    IN  IF rows = {} THEN NoUser
        ELSE s[CHOOSE i \in rows : \A j \in rows : i <= j]

\* the table without its unique constraint
UniqueViolation_Dropped(s, user) == FALSE

\* unique=True on users.email: an INSERT of a value already present fails
UniqueViolation(s, user) == \E i \in DOMAIN s : s[i].email = user.email

\* a commit that keeps the row although the constraint failed
db_commit_Partial(s, user) ==
    [ok |-> ~UniqueViolation(s, user), store |-> Append(s, user)]

\* db.add(user); db.commit(): the row is inserted and committed, or the
\* constraint aborts the transaction with IntegrityError and nothing is kept
db_commit(s, user) ==
    IF UniqueViolation(s, user)
    THEN [ok |-> FALSE, store |-> s]
    ELSE [ok |-> TRUE, store |-> Append(s, user)]

\* User(email=email, password_hash=...), id assigned by the primary key
User(s, email, password_hash) ==
    [id |-> Len(s) + 1, email |-> email, password_hash |-> password_hash]

-----------------------------------------------------------------------------
(* Requests and responses *)

Workers == {"t1", "t2"}

\* e-mail spellings sent by clients: two accounts, one of them in three
\* spellings that differ in case and in surrounding whitespace
Emails == {<<"a">>, <<"A">>, <<"a", " ">>, <<"b">>}

\* passwords sent by clients: one character too short, the shortest valid
\* one, and a second valid one
Passwords ==
    {Rep("p", MinPasswordLen - 1), Rep("p", MinPasswordLen), Rep("q", MinPasswordLen)}

NoReq == [op |-> "none", email |-> <<>>, password |-> <<>>]

NoResp == [status |-> 0, token |-> NoToken]

\* raise HTTPException(status_code=...), or an unhandled exception (500)
Error(status) == [status |-> status, token |-> NoToken]

\* return {"token": token}
Ok(token) == [status |-> 200, token |-> token]

\* register without its SELECT for an existing row
register_check_NoLookup(s, email, password) ==
    IF Len(password) < MinPasswordLen THEN 400 ELSE 0

\* register with the duplicate check made before the length check
register_check_DuplicateFirst(s, email, password) ==
    IF Found(query_first(s, email)) THEN 409
    ELSE IF Len(password) < MinPasswordLen THEN 400
    ELSE 0

\* register, lines 123-129: the checks made before the INSERT; 0 when the
\* handler goes on to insert
register_check(s, email, password) ==
    IF Len(password) < MinPasswordLen THEN 400
    ELSE IF Found(query_first(s, email)) THEN 409
    ELSE 0

\* login without the `not user` test: the password check runs on None
login_response_NoUserTest(user, password) ==
    LET v == verify_password(password, user.password_hash)
    IN  IF v.raised # "" \/ ~Found(user) THEN Error(500)
        ELSE IF ~v.value THEN Error(401)
        ELSE Ok(create_token(user.email))

\* login, lines 143-147, given the row .first() returned
login_response(user, password) ==
    IF ~Found(user) THEN Error(401)
    ELSE LET v == verify_password(password, user.password_hash)
         IN  IF v.raised # "" THEN Error(500)
             ELSE IF ~v.value THEN Error(401)
             ELSE Ok(create_token(user.email))

-----------------------------------------------------------------------------
(* Initial state: empty table, both worker threads idle *)

HashOff ==
    /\ hpc = "off"
    /\ hp = <<>>
    /\ hq = <<>>
    /\ hh = NoHash
    /\ hv = [raised |-> "", value |-> FALSE]

AuthInit ==
    /\ store = <<>>
    /\ pc = [w \in Workers |-> "ready"]
    /\ req = [w \in Workers |-> NoReq]
    /\ last = [req |-> NoReq, resp |-> NoResp]
    /\ registered = {}

Init == AuthInit /\ HashOff

-----------------------------------------------------------------------------
(* Handlers.  req[w] is the request thread w is serving between the SELECT *)
(* and the COMMIT of register; last is the request answered most recently, *)
(* with its response; registered is the history of successful              *)
(* registrations: the e-mail as the client spelled it and the plaintext    *)
(* password.                                                               *)

Request(op, e, p) == [op |-> op, email |-> e, password |-> p]

\* register up to the SELECT: lines 123-129.  A request that passes both
\* checks is left between its SELECT and its COMMIT.
RegisterBegin(w, e, p) ==
    /\ pc[w] = "ready"
    /\ LET email == NormalizeEmail(e)
           st == register_check(store, email, p)
       IN  IF st # 0
           THEN /\ last' = [req |-> Request("register", e, p), resp |-> Error(st)]
                /\ UNCHANGED <<pc, req>>
           ELSE /\ req' = [req EXCEPT ![w] = Request("register", e, p)]
                /\ pc' = [pc EXCEPT ![w] = "pending"]
                /\ UNCHANGED last
    /\ UNCHANGED <<store, registered>>
    /\ UNCHANGED hashVars

\* register from the INSERT on: lines 131-137.  IntegrityError is not caught,
\* so the framework answers 500.
RegisterCommit(w) ==
    /\ pc[w] = "pending"
    /\ \E salt \in Salts :
         LET email == NormalizeEmail(req[w].email)
             user == User(store, email, hash_password(req[w].password, salt))
             done == db_commit(store, user)
         IN  /\ store' = done.store
             /\ IF done.ok
                THEN /\ last' = [req |-> req[w], resp |-> Ok(create_token(user.email))]
                     /\ registered' = registered \cup
                            {[email |-> req[w].email, password |-> req[w].password]}
                ELSE /\ last' = [req |-> req[w], resp |-> Error(500)]
                     /\ registered' = registered
    /\ pc' = [pc EXCEPT ![w] = "ready"]
    /\ req' = [req EXCEPT ![w] = NoReq]
    /\ UNCHANGED hashVars

\* login: lines 141-147, one SELECT and no write
Login(w, e, p) ==
    /\ pc[w] = "ready"
    /\ LET email == NormalizeEmail(e)
           user == query_first(store, email)
       IN  last' = [req |-> Request("login", e, p), resp |-> login_response(user, p)]
    /\ UNCHANGED <<store, pc, req, registered>>
    /\ UNCHANGED hashVars

Next ==
    \/ \E w \in Workers, e \in Emails, p \in Passwords : RegisterBegin(w, e, p)
    \/ \E w \in Workers : RegisterCommit(w)
    \/ \E w \in Workers, e \in Emails, p \in Passwords : Login(w, e, p)

Spec == Init /\ [][Next]_vars

\* Requests served one at a time: no request starts while another is
\* between its SELECT and its COMMIT.
NonePending == \A w \in Workers : pc[w] = "ready"

SeqNext ==
    \/ NonePending /\ \E w \in Workers, e \in Emails, p \in Passwords : RegisterBegin(w, e, p)
    \/ \E w \in Workers : RegisterCommit(w)
    \/ NonePending /\ \E w \in Workers, e \in Emails, p \in Passwords : Login(w, e, p)

SeqSpec == Init /\ [][SeqNext]_vars

-----------------------------------------------------------------------------
(* The password hasher on its own: hash p, then verify q against the hash *)

Alphabet == {"p", "q", "e'"}

RECURSIVE Tails(_)
Tails(n) ==
    IF n = 0 THEN {<<>>}
    ELSE Tails(n - 1) \cup {Append(t, c) : t \in Tails(n - 1), c \in Alphabet}

PadLens == {0, TruncateChars - 1, TruncateChars}

HashInputs == {Rep("p", n) \o t : n \in PadLens, t \in Tails(MaxTail)}

HashInit ==
    /\ AuthInit
    /\ hpc = "input"
    /\ hp \in HashInputs
    /\ hq \in HashInputs
    /\ hh = NoHash
    /\ hv = [raised |-> "", value |-> FALSE]

DoHash ==
    /\ hpc = "input"
    /\ \E salt \in Salts : hh' = hash_password(hp, salt)
    /\ hpc' = "hashed"
    /\ UNCHANGED <<hp, hq, hv>>
    /\ UNCHANGED authVars

DoVerify ==
    /\ hpc = "hashed"
    /\ hv' = verify_password(hq, hh)
    /\ hpc' = "verified"
    /\ UNCHANGED <<hp, hq, hh>>
    /\ UNCHANGED authVars

HashNext == DoHash \/ DoVerify

HashSpec == HashInit /\ [][HashNext]_vars

-----------------------------------------------------------------------------
(* Vocabulary of the properties *)

HasEmail(s, email) == RowsByEmail(s, email) # {}

ValidPassword(p) == Len(p) >= MinPasswordLen

\* a step in which a request was answered without passing its checks to the
\* INSERT: a login, or a register rejected with 400 or 409
Answered == pc' = pc /\ last' # last

\* a step in which thread w's register passed its checks (SELECT done)
Accepted(w) == pc[w] = "ready" /\ pc'[w] = "pending"

\* a step in which thread w's register ran its INSERT and COMMIT
Committing(w) == pc[w] = "pending" /\ pc'[w] = "ready"

Succeeded(r) == r.status = 200 /\ r.token # NoToken

\* the client registered Normalize(e) with exactly the password p
RegisteredWith(e, p) ==
    \E g \in registered : NormalizeEmail(g.email) = NormalizeEmail(e) /\ g.password = p

-----------------------------------------------------------------------------
(* C1: a register of an e-mail that is not in the store, with a password   *)
(* of at least 6 characters, succeeds with 200 and a token, and every      *)
(* later login with the same e-mail and password succeeds with 200 and a   *)
(* token.  Stated for requests served one after the other.                 *)
C1_RegisterThenLogin ==
    [][ /\ (Answered /\ last'.req.op = "register" /\ ValidPassword(last'.req.password))
              => HasEmail(store, NormalizeEmail(last'.req.email))
        /\ \A w \in Workers : Committing(w) => Succeeded(last'.resp)
        /\ (Answered /\ last'.req.op = "login"
                /\ RegisteredWith(last'.req.email, last'.req.password))
              => Succeeded(last'.resp) ]_vars

(* C2: of two registers of the same normalized e-mail served one after the *)
(* other (passwords of at least 6 characters), the first is accepted and   *)
(* commits with 200 and a token, adding the one row of that e-mail with    *)
(* the hash of its password; the second is answered 409 and leaves the     *)
(* store as it was.                                                        *)
C2_SequentialDuplicate ==
    [][ /\ \A w \in Workers :
              Accepted(w) => ~HasEmail(store, NormalizeEmail(req'[w].email))
        /\ (Answered /\ last'.req.op = "register" /\ ValidPassword(last'.req.password))
              => /\ HasEmail(store, NormalizeEmail(last'.req.email))
                 /\ last'.resp = Error(409)
                 /\ store' = store
        /\ \A w \in Workers :
              Committing(w) =>
                LET email == NormalizeEmail(req[w].email)
                IN  /\ Succeeded(last'.resp)
                    /\ Len(store') = Len(store) + 1
                    /\ SubSeq(store', 1, Len(store)) = store
                    /\ Cardinality(RowsByEmail(store', email)) = 1
                    /\ \E salt \in Salts :
                         store'[Len(store')].password_hash
                             = pwd_context_hash(Take(req[w].password, TruncateChars), salt) ]_vars

\* a second register of a registered e-mail, with another password, was
\* answered 409 and the one row of the e-mail still carries the first hash
C2_Witness ==
    /\ last.req.op = "register"
    /\ last.resp = Error(409)
    /\ \E g \in registered :
         /\ NormalizeEmail(g.email) = NormalizeEmail(last.req.email)
         /\ g.password # last.req.password
         /\ Cardinality(RowsByEmail(store, NormalizeEmail(g.email))) = 1
         /\ query_first(store, NormalizeEmail(g.email)).password_hash.digest = Utf8(g.password)

(* C3: when two registers of the same normalized e-mail interleave, the    *)
(* one that commits first succeeds with a token and the one that commits   *)
(* after it is answered 409.                                               *)
C3_RaceLoserGetsConflict ==
    [][ \A w \in Workers :
          Committing(w) =>
            IF HasEmail(store, NormalizeEmail(req[w].email))
            THEN last'.resp = Error(409) /\ store' = store
            ELSE Succeeded(last'.resp) ]_vars

(* C4: a login whose normalized e-mail is registered and whose password is *)
(* not the registered one is answered 401, without a token.                *)
C4_WrongPassword401 ==
    [][ (/\ Answered
         /\ last'.req.op = "login"
         /\ HasEmail(store, NormalizeEmail(last'.req.email))
         /\ ~RegisteredWith(last'.req.email, last'.req.password))
        => last'.resp = Error(401) ]_vars

(* C5: a login whose normalized e-mail is not in the store is answered     *)
(* 401, without a token, whatever the password.                            *)
C5_UnknownEmail401 ==
    [][ (/\ Answered
         /\ last'.req.op = "login"
         /\ ~HasEmail(store, NormalizeEmail(last'.req.email)))
        => last'.resp = Error(401) ]_vars

\* a login of an e-mail that is not registered was answered 401 while another
\* account exists
C5_Witness ==
    /\ last.req.op = "login"
    /\ last.resp = Error(401)
    /\ ~HasEmail(store, NormalizeEmail(last.req.email))
    /\ store # <<>>

(* C6: a register with a password shorter than 6 characters is answered   *)
(* 400 for every e-mail, registered or not, is never passed on to the      *)
(* INSERT, and creates no row.                                             *)
C6_ShortPassword400 ==
    [][ /\ \A w \in Workers : Accepted(w) => ValidPassword(req'[w].password)
        /\ (Answered /\ last'.req.op = "register" /\ ~ValidPassword(last'.req.password))
              => last'.resp = Error(400) /\ store' = store ]_vars

\* a short password was answered 400 although the e-mail is registered
C6_Witness ==
    /\ last.req.op = "register"
    /\ ~ValidPassword(last.req.password)
    /\ last.resp = Error(400)
    /\ HasEmail(store, NormalizeEmail(last.req.email))

(* C7: spellings of an e-mail that differ in case or surrounding           *)
(* whitespace name one account: the stored e-mail is the normalized form,  *)
(* a register under another spelling of a stored e-mail is not accepted,   *)
(* and a login under another spelling with the registered password         *)
(* succeeds.                                                               *)
C7_SpellingsShareAccount ==
    [][ /\ \A i \in DOMAIN store' : store'[i].email = NormalizeEmail(store'[i].email)
        /\ \A w \in Workers :
              Accepted(w) =>
                ~\E i \in DOMAIN store :
                    NormalizeEmail(store[i].email) = NormalizeEmail(req'[w].email)
        /\ (/\ Answered
            /\ last'.req.op = "login"
            /\ \E g \in registered :
                 /\ g.email # last'.req.email
                 /\ NormalizeEmail(g.email) = NormalizeEmail(last'.req.email)
                 /\ g.password = last'.req.password)
           => Succeeded(last'.resp) ]_vars

(* C8: no two rows of the store share a normalized e-mail.                 *)
C8_UniqueEmail ==
    \A i, j \in DOMAIN store :
        i # j => NormalizeEmail(store[i].email) # NormalizeEmail(store[j].email)

\* two accounts exist and a register that lost a race was stopped by the
\* constraint
C8_Witness ==
    /\ Len(store) = 2
    /\ last.req.op = "register"
    /\ last.resp.status = 500

(* C9: every step leaves the existing rows as they are: the store changes  *)
(* only when a register commits and answers 200 with a token, and then by  *)
(* exactly one appended row; a login, a rejected register and a register   *)
(* that returns no token leave the store unchanged.                        *)
C9_StoreFrame ==
    [][ /\ \/ store' = store
           \/ /\ \E w \in Workers : Committing(w)
              /\ Succeeded(last'.resp)
              /\ last'.req.op = "register"
              /\ Len(store') = Len(store) + 1
              /\ SubSeq(store', 1, Len(store)) = store
        /\ Answered => store' = store
        /\ (\E w \in Workers : Committing(w)) /\ last'.resp.token = NoToken
              => store' = store ]_vars

\* a register failed at its COMMIT and a row of the same e-mail is there
C9_Witness ==
    /\ last.req.op = "register"
    /\ last.resp = Error(500)
    /\ HasEmail(store, NormalizeEmail(last.req.email))
    /\ Len(store) = 1

(* C10: verify(q, hash(p)) is true exactly when q and p agree on their     *)
(* first 72 bytes.                                                         *)
C10_VerifyIffSamePrefix ==
    hpc = "verified" =>
        ((hv.raised = "" /\ hv.value)
            <=> Take(Utf8(hq), BcryptMaxBytes) = Take(Utf8(hp), BcryptMaxBytes))

====
